---- MODULE Spec2Model ----
(***************************************************************************)
(* Model of the session / login / meeting-fetch flow of src/src/App.tsx.   *)
(* React state of the App component, the browsing context (page URL and    *)
(* navigation target) and every handleLogin invocation started on the      *)
(* current page are the state; one action per event-loop task.             *)
(***************************************************************************)
EXTENDS Integers, Sequences, FiniteSets, TLC

\* ---------------------------------------------------------------- bounds
MaxFlows == 2        \* handleLogin invocations started per page load
MaxLoads == 2        \* page loads (first load included)

\* ------------------------------------------------------------- constants
USE_REAL_BACKEND == TRUE

\* ---------------------------------------------------------------- values
\* JS null for an object-typed value
Null == [null |-> TRUE]
\* an absent / falsy string (undefined authUrl)
NoUrl == ""
\* error state null
NoError == "null"
ConnectionFailed == "Connection failed. Is the backend running on port 3000?"

DemoUser ==
    [name |-> "Demo User", email |-> "demo@example.com",
     avatar |-> "https://ui-avatars.com/api/?name=Demo+User&background=0D8ABC&color=fff"]
AliceUser == [name |-> "Alice", email |-> "alice@corp.test", avatar |-> "alice.png"]
RealUsers == {AliceUser}
Users == RealUsers \cup {DemoUser}

GoogleUrl == "https://accounts.google.com/o/oauth2"
AuthUrls == {GoogleUrl}
AppUrl == "/"

Meeting1 == [id |-> "m1", title |-> "Standup", link |-> "https://meet/1"]
Meeting2 == [id |-> "m2", title |-> "Retro", link |-> ""]
EmptyData == [upcoming |-> <<>>, past |-> <<>>]
Collections ==
    {[upcoming |-> u, past |-> p] : u \in {<<>>, <<Meeting1>>}, p \in {<<>>, <<Meeting2>>}}

\* What POST /auth/login can produce: a JSON body with an optional user and
\* an optional authUrl, or a failure (network error, unparsable body).
LoginResponses ==
    {[transport |-> "ok", user |-> u, authUrl |-> a] :
        u \in RealUsers \cup {Null}, a \in AuthUrls \cup {NoUrl}}
    \cup {[transport |-> "fail", user |-> Null, authUrl |-> NoUrl]}
NoResponse == [transport |-> "none", user |-> Null, authUrl |-> NoUrl]

\* What GET /api/meetings can produce: res.ok with a body, a non-2xx
\* status, or a failure of the request itself.
FetchResponses ==
    {[status |-> "ok", body |-> c] : c \in Collections}
    \cup {[status |-> "http_error", body |-> EmptyData],
          [status |-> "network_error", body |-> EmptyData]}

SearchStatuses == {"none", "success", "other"}

VARIABLES
    useReal,        \* useState(USE_REAL_BACKEND)
    user,           \* useState<User | null>
    data,           \* useState<{upcoming, past}>
    loading,        \* useState(false)
    error,          \* useState<string | null>
    view,           \* what the last render returned: "login" or "dashboard"
    search,         \* value of the status parameter of window.location.search
    href,           \* window.location.href: AppUrl or the URL navigated to
    flows,          \* the handleLogin invocations of this page, oldest first
    loads,          \* history: number of page loads so far
    markers,        \* history: times the page URL was given ?status=success
    autoLogins      \* history: handleLogin calls made by the mount effect

vars == <<useReal, user, data, loading, error, view, search, href, flows,
          loads, markers, autoLogins>>

\* -------------------------------------------------------- pure functions
\* variant of StubLogin: the promise is rejected when the timer fires
StubLoginRejects == [outcome |-> "error", userData |-> Null]

\* login(useReal), stub branch: the value the timer resolves the promise with
StubLogin == [outcome |-> "user", userData |-> DemoUser]

\* variant of RealLogin: `return data.user` without testing it
RealLoginUnchecked(r) ==
    IF r.transport # "ok" THEN [outcome |-> "error", userData |-> Null, nav |-> NoUrl]
    ELSE [outcome |-> "user", userData |-> r.user, nav |-> NoUrl]

\* variant of RealLogin: the redirect branch lacks `return null` and runs
\* into the throw below it
RealLoginNoReturn(r) ==
    IF r.transport # "ok" THEN [outcome |-> "error", userData |-> Null, nav |-> NoUrl]
    ELSE IF r.user # Null THEN [outcome |-> "user", userData |-> r.user, nav |-> NoUrl]
    ELSE IF r.authUrl # NoUrl THEN [outcome |-> "error", userData |-> Null, nav |-> r.authUrl]
    ELSE [outcome |-> "error", userData |-> Null, nav |-> NoUrl]

\* variant of RealLogin: the catch block logs the error and does not rethrow
RealLoginSwallow(r) ==
    IF r.transport # "ok" THEN [outcome |-> "null", userData |-> Null, nav |-> NoUrl]
    ELSE IF r.user # Null THEN [outcome |-> "user", userData |-> r.user, nav |-> NoUrl]
    ELSE IF r.authUrl # NoUrl THEN [outcome |-> "redirect", userData |-> Null, nav |-> r.authUrl]
    ELSE [outcome |-> "null", userData |-> Null, nav |-> NoUrl]

\* login(useReal), real branch, applied to the response of the POST
RealLogin(r) ==
    IF r.transport # "ok" THEN [outcome |-> "error", userData |-> Null, nav |-> NoUrl]
    ELSE IF r.user # Null THEN [outcome |-> "user", userData |-> r.user, nav |-> NoUrl]
    ELSE IF r.authUrl # NoUrl THEN [outcome |-> "redirect", userData |-> Null, nav |-> r.authUrl]
    ELSE [outcome |-> "error", userData |-> Null, nav |-> NoUrl]

\* variant of StubMeetings: the mock data holds a sample meeting
StubMeetingsSample == [upcoming |-> <<Meeting1>>, past |-> <<>>]

\* fetchMeetings(useReal), stub branch
StubMeetings == [upcoming |-> <<>>, past |-> <<>>]

\* fetchMeetings(useReal), real branch, applied to the response of the GET
RealMeetings(r) ==
    IF r.status = "ok" THEN [ok |-> TRUE, meetings |-> r.body]
    ELSE [ok |-> FALSE, meetings |-> EmptyData]

\* variant of Render: the test of `user` is inverted
RenderInverted(u) == IF u # Null THEN "login" ELSE "dashboard"

\* view selection of App
Render(u) == IF u = Null THEN "login" ELSE "dashboard"

\* a handleLogin invocation that has run up to its first await
NewFlow(mode) ==
    [pc |-> "login", useReal |-> mode, outcome |-> "pending", userData |-> Null,
     resp |-> NoResponse, fetchCalls |-> 0, fetchOutcome |-> "none",
     fetchArgs |-> <<>>, meetings |-> Null]

\* variant of CallFetchMeetings: the call is made a second time
CallFetchMeetingsTwice(f) ==
    [f EXCEPT !.fetchCalls = @ + 2, !.fetchOutcome = "pending",
              !.fetchArgs = @ \o <<f.useReal, f.useReal>>]

\* variant of CallFetchMeetings: the argument is the mode flag as it is when
\* the call is made, not the one the invocation started with
CallFetchMeetingsLive(f) ==
    [f EXCEPT !.fetchCalls = @ + 1, !.fetchOutcome = "pending",
              !.fetchArgs = Append(@, useReal)]

\* `fetchMeetings(useReal)` is called by the invocation f, with the useReal
\* of the render whose handleLogin is running
CallFetchMeetings(f) ==
    [f EXCEPT !.fetchCalls = @ + 1, !.fetchOutcome = "pending",
              !.fetchArgs = Append(@, f.useReal)]

\* the mount effect: does it call handleLogin for a page loaded with status s
AutoLogin(s) == s = "success" /\ USE_REAL_BACKEND

\* variant of SearchAfterMount: the effect lacks the replaceState call
SearchKeptAfterMount(s) == s

\* the status parameter left in the URL once the mount effect has run
SearchAfterMount(s) == IF AutoLogin(s) THEN "none" ELSE s

\* ------------------------------------------------------------------ Init
\* The page has been loaded with some URL, App has mounted with its initial
\* state and the mount effect has run.
Init ==
    \E s \in SearchStatuses :
        /\ useReal = USE_REAL_BACKEND
        /\ user = Null
        /\ data = EmptyData
        /\ loading = AutoLogin(s)
        /\ error = NoError
        /\ view = Render(Null)
        /\ search = SearchAfterMount(s)
        /\ href = AppUrl
        /\ flows = IF AutoLogin(s) THEN <<NewFlow(USE_REAL_BACKEND)>> ELSE <<>>
        /\ loads = 1
        /\ markers = IF s = "success" THEN 1 ELSE 0
        /\ autoLogins = IF AutoLogin(s) THEN 1 ELSE 0

\* --------------------------------------------------------------- actions
\* The page is loaded again with status parameter s: every piece of React
\* state is re-created, in-flight invocations of the old page are gone.
Mount(s) ==
    /\ useReal' = USE_REAL_BACKEND
    /\ user' = Null
    /\ data' = EmptyData
    /\ loading' = AutoLogin(s)
    /\ error' = NoError
    /\ view' = Render(Null)
    /\ search' = SearchAfterMount(s)
    /\ href' = AppUrl
    /\ flows' = IF AutoLogin(s) THEN <<NewFlow(USE_REAL_BACKEND)>> ELSE <<>>
    /\ loads' = loads + 1
    /\ autoLogins' = IF AutoLogin(s) THEN autoLogins + 1 ELSE autoLogins

\* the user reloads the page: same URL
Reload ==
    /\ loads < MaxLoads
    /\ Mount(search)
    /\ markers' = markers

\* the external authentication page sends the browser back with the marker
OAuthReturn ==
    /\ loads < MaxLoads
    /\ href # AppUrl
    /\ Mount("success")
    /\ markers' = markers + 1

\* variant of LoginEnabled: the button lacks `disabled={loading}`
LoginEnabledWhileLoading == user = Null

\* the login button is rendered (login screen) and not disabled
LoginEnabled == user = Null /\ ~loading

\* click on "Sign in with Google": handleLogin up to `await login(useReal)`
ClickLogin ==
    /\ LoginEnabled
    /\ Len(flows) < MaxFlows
    /\ loading' = TRUE
    /\ error' = NoError
    /\ flows' = Append(flows, NewFlow(useReal))
    /\ view' = Render(user)
    /\ UNCHANGED <<useReal, user, data, search, href, loads, markers, autoLogins>>

\* variant of ToggleMode: the handler also clears the error message
ToggleModeClearsError ==
    /\ user = Null
    /\ useReal' = ~useReal
    /\ error' = NoError
    /\ view' = Render(user)
    /\ UNCHANGED <<user, data, loading, search, href, flows, loads, markers, autoLogins>>

\* click on the mode button of the login screen
ToggleMode ==
    /\ user = Null
    /\ useReal' = ~useReal
    /\ view' = Render(user)
    /\ UNCHANGED <<user, data, loading, error, search, href, flows, loads, markers, autoLogins>>

\* click on the logout button of the dashboard
Logout ==
    /\ user # Null
    /\ user' = Null
    /\ view' = Render(Null)
    /\ UNCHANGED <<useReal, data, loading, error, search, href, flows, loads, markers, autoLogins>>

\* stub mode: the 800 ms timer fires; handleLogin then runs to its end,
\* the stub fetchMeetings being an already-resolved promise
StubLoginResolve(i) ==
    /\ flows[i].pc = "login"
    /\ ~flows[i].useReal
    /\ LET res == StubLogin
           f == [flows[i] EXCEPT !.pc = "done", !.outcome = res.outcome,
                                 !.userData = res.userData]
       IN
       CASE res.outcome = "user" ->
              /\ user' = res.userData
              /\ data' = StubMeetings
              /\ flows' = [flows EXCEPT ![i] = [CallFetchMeetings(f) EXCEPT
                                                  !.fetchOutcome = "ok",
                                                  !.meetings = StubMeetings]]
              /\ UNCHANGED error
         [] res.outcome = "error" ->
              /\ error' = ConnectionFailed
              /\ flows' = [flows EXCEPT ![i] = f]
              /\ UNCHANGED <<user, data>>
         [] OTHER ->
              /\ flows' = [flows EXCEPT ![i] = f]
              /\ UNCHANGED <<user, data, error>>
    /\ loading' = FALSE
    /\ view' = Render(user')
    /\ UNCHANGED <<useReal, search, href, loads, markers, autoLogins>>

\* real mode: the POST /auth/login request completes with r; handleLogin
\* runs up to `await fetchMeetings(useReal)` or to its end
LoginResponse(i, r) ==
    /\ flows[i].pc = "login"
    /\ flows[i].useReal
    /\ LET res == RealLogin(r)
           f == [flows[i] EXCEPT !.outcome = res.outcome, !.userData = res.userData,
                                 !.resp = r]
       IN
       /\ href' = IF res.nav # NoUrl THEN res.nav ELSE href
       /\ CASE res.outcome = "user" ->
                /\ user' = res.userData
                /\ flows' = [flows EXCEPT ![i] = [CallFetchMeetings(f) EXCEPT !.pc = "fetch"]]
                /\ UNCHANGED <<loading, error>>
           [] res.outcome = "error" ->
                /\ error' = ConnectionFailed
                /\ loading' = FALSE
                /\ flows' = [flows EXCEPT ![i] = [f EXCEPT !.pc = "done"]]
                /\ UNCHANGED user
           [] OTHER ->
                /\ loading' = FALSE
                /\ flows' = [flows EXCEPT ![i] = [f EXCEPT !.pc = "done"]]
                /\ UNCHANGED <<user, error>>
    /\ view' = Render(user')
    /\ UNCHANGED <<useReal, data, search, loads, markers, autoLogins>>

\* variant of FetchResponse: a failed fetchMeetings is called again
FetchResponseRetries(i, r) ==
    /\ flows[i].pc = "fetch"
    /\ LET res == RealMeetings(r) IN
       IF res.ok
       THEN /\ data' = res.meetings
            /\ loading' = FALSE
            /\ flows' = [flows EXCEPT ![i].pc = "done", ![i].fetchOutcome = "ok",
                                      ![i].meetings = res.meetings]
       ELSE /\ flows[i].fetchCalls < 2
            /\ flows' = [flows EXCEPT ![i] = CallFetchMeetings(@)]
            /\ UNCHANGED <<data, loading>>
    /\ view' = Render(user)
    /\ UNCHANGED <<useReal, user, error, search, href, loads, markers, autoLogins>>

\* variant of FetchResponse: the catch block also runs setData with the
\* empty collection
FetchResponseClears(i, r) ==
    /\ flows[i].pc = "fetch"
    /\ LET res == RealMeetings(r) IN
       IF res.ok
       THEN /\ data' = res.meetings
            /\ flows' = [flows EXCEPT ![i].pc = "done", ![i].fetchOutcome = "ok",
                                      ![i].meetings = res.meetings]
            /\ UNCHANGED error
       ELSE /\ error' = ConnectionFailed
            /\ flows' = [flows EXCEPT ![i].pc = "done", ![i].fetchOutcome = "failed"]
            /\ data' = EmptyData
    /\ loading' = FALSE
    /\ view' = Render(user)
    /\ UNCHANGED <<useReal, user, search, href, loads, markers, autoLogins>>

\* real mode: the GET /api/meetings request completes with r; handleLogin
\* runs to its end
FetchResponse(i, r) ==
    /\ flows[i].pc = "fetch"
    /\ LET res == RealMeetings(r) IN
       IF res.ok
       THEN /\ data' = res.meetings
            /\ flows' = [flows EXCEPT ![i].pc = "done", ![i].fetchOutcome = "ok",
                                      ![i].meetings = res.meetings]
            /\ UNCHANGED error
       ELSE /\ error' = ConnectionFailed
            /\ flows' = [flows EXCEPT ![i].pc = "done", ![i].fetchOutcome = "failed"]
            /\ UNCHANGED data
    /\ loading' = FALSE
    /\ view' = Render(user)
    /\ UNCHANGED <<useReal, user, search, href, loads, markers, autoLogins>>

\* the stub login timer of some invocation fires
StubTimer == \E i \in DOMAIN flows : StubLoginResolve(i)

Next ==
    \/ Reload
    \/ OAuthReturn
    \/ ClickLogin
    \/ ToggleMode
    \/ Logout
    \/ StubTimer
    \/ \E i \in DOMAIN flows, r \in LoginResponses : LoginResponse(i, r)
    \/ \E i \in DOMAIN flows, r \in FetchResponses : FetchResponse(i, r)

Spec == Init /\ [][Next]_vars

\* a timer that was set fires: setTimeout(..., 800) needs no other event
FairSpec == Spec /\ WF_vars(StubTimer)

TypeOK ==
    /\ useReal \in BOOLEAN
    /\ user \in Users \cup {Null}
    /\ data \in Collections
    /\ loading \in BOOLEAN
    /\ error \in {NoError, ConnectionFailed}
    /\ view \in {"login", "dashboard"}
    /\ search \in SearchStatuses
    /\ href \in AuthUrls \cup {AppUrl}
    /\ Len(flows) <= MaxFlows
    /\ loads \in 1..MaxLoads

\* ================================================================ claims
\* flow i of the current page calls fetchMeetings in this step
FetchInvoked(i) ==
    /\ i \in DOMAIN flows
    /\ i \in DOMAIN flows'
    /\ loads' = loads
    /\ flows'[i].fetchCalls > flows[i].fetchCalls

\* flow i of the current page receives the response of its real-mode
\* login request in this step
LoginAnswered(i) ==
    /\ i \in DOMAIN flows
    /\ i \in DOMAIN flows'
    /\ loads' = loads
    /\ flows[i].useReal
    /\ flows[i].pc = "login"
    /\ flows'[i].pc # "login"

\* C1: fetchMeetings is invoked only by a flow whose login has resolved to
\* a concrete User: a flow that has called fetchMeetings is past its login
\* request with a User as result, and in the step that makes the call the
\* login has just resolved to that User and no login request of the page is
\* left in flight.
C1_FetchOnlyAfterLogin ==
    /\ [](\A i \in DOMAIN flows :
            flows[i].fetchCalls > 0 =>
                /\ flows[i].pc # "login"
                /\ flows[i].outcome = "user"
                /\ flows[i].userData \in Users)
    /\ [][\A i \in 1..MaxFlows :
            FetchInvoked(i) =>
                /\ flows[i].pc = "login"
                /\ flows[i].fetchCalls = 0
                /\ flows'[i].userData \in Users
                /\ user' = flows'[i].userData
                /\ \A j \in DOMAIN flows' : flows'[j].pc # "login"]_vars

\* C1 witness: a real-mode flow has its fetchMeetings request in flight
C1_Witness ==
    \E i \in DOMAIN flows :
        flows[i].useReal /\ flows[i].pc = "fetch" /\ flows[i].fetchCalls = 1

\* C2 as stated: whenever the response of a real-mode login carries an
\* authUrl, the navigation target becomes that URL and the flow ends with
\* no User, no fetchMeetings call, no error message and the login screen.
C2_Original ==
    [][\A i \in 1..MaxFlows :
         (LoginAnswered(i) /\ flows'[i].resp.authUrl # NoUrl) =>
             /\ href' = flows'[i].resp.authUrl
             /\ flows'[i].pc = "done"
             /\ user' = Null
             /\ flows'[i].fetchCalls = 0
             /\ error' = NoError
             /\ view' = "login"]_vars

\* C2 amended: whenever the response of a real-mode login carries an
\* authUrl and no user, the navigation target becomes that URL and the flow
\* ends with no User, no fetchMeetings call, no error message and the login
\* screen.
C2_RedirectEndsFlow ==
    [][\A i \in 1..MaxFlows :
         (LoginAnswered(i) /\ flows'[i].resp.authUrl # NoUrl
                           /\ flows'[i].resp.user = Null) =>
             /\ href' = flows'[i].resp.authUrl
             /\ flows'[i].pc = "done"
             /\ user' = Null
             /\ flows'[i].fetchCalls = 0
             /\ error' = NoError
             /\ view' = "login"]_vars

\* C2 witness: a real-mode flow has ended on a response with an authUrl and
\* no user
C2_Witness ==
    \E i \in DOMAIN flows :
        /\ flows[i].pc = "done"
        /\ flows[i].resp.authUrl = GoogleUrl
        /\ flows[i].resp.user = Null
        /\ href = GoogleUrl

\* C3: a real-mode flow whose login yielded a User has called fetchMeetings
\* exactly once, a flow still waiting for its login not at all, and the
\* dashboard is never shown for a User unless the flow that set this User
\* has already made its call.
C3_FetchOnceBeforeLoggedIn ==
    /\ \A i \in DOMAIN flows :
         /\ (flows[i].useReal /\ flows[i].outcome = "user") => flows[i].fetchCalls = 1
         /\ flows[i].pc = "login" => flows[i].fetchCalls = 0
    /\ (user # Null /\ view = "dashboard") =>
         \E i \in DOMAIN flows :
            flows[i].userData = user /\ flows[i].fetchCalls = 1

\* C3 witness: the dashboard is shown for a User a real-mode login yielded,
\* the meetings having arrived
C3_Witness ==
    /\ user \in RealUsers
    /\ view = "dashboard"
    /\ ~loading
    /\ \E i \in DOMAIN flows :
         flows[i].useReal /\ flows[i].pc = "done" /\ flows[i].fetchOutcome = "ok"
\* the fetchMeetings request of flow i of the current page fails in this step
FetchFailed(i) ==
    /\ i \in DOMAIN flows
    /\ i \in DOMAIN flows'
    /\ loads' = loads
    /\ flows[i].fetchOutcome = "pending"
    /\ flows'[i].fetchOutcome = "failed"

\* a login response that carries neither a user nor a redirect target, or
\* a request that failed in transport
NoUserNoRedirect(r) ==
    \/ r.transport = "fail"
    \/ (r.transport = "ok" /\ r.user = Null /\ r.authUrl = NoUrl)

\* C4: the logout action, taken in any state with a User present, leaves
\* the User absent and both upcoming and past empty.
C4_LogoutClearsAll ==
    [][(user # Null /\ user' = Null /\ loads' = loads) =>
          (data'.upcoming = <<>> /\ data'.past = <<>>)]_vars

\* C5: whenever the fetchMeetings request of a flow fails, the flow ends
\* with the connectivity message set, loading reset and both upcoming and
\* past empty.
C5_FetchFailureLeavesEmpty ==
    [][\A i \in 1..MaxFlows :
         FetchFailed(i) =>
             /\ error' = ConnectionFailed
             /\ ~loading'
             /\ data'.upcoming = <<>>
             /\ data'.past = <<>>]_vars

\* C6: the page URL never keeps the marker status=success once the page has
\* mounted, and the number of logins the mount effect has invoked equals the
\* number of times the marker was put into the URL: one auto-login per
\* marker, none on a reload after the marker was removed.
C6_MarkerConsumedOnce ==
    /\ search # "success"
    /\ autoLogins = markers

\* C6 witness: the page was loaded with the marker, login was auto-invoked,
\* and the page has since been reloaded without a further auto-login
C6_Witness ==
    /\ loads >= 2
    /\ markers = 1
    /\ autoLogins = 1
    /\ search = "none"
    /\ flows = <<>>

\* C7: whenever the response of a real-mode login carries neither a user
\* nor a redirect target, or the request fails in transport, the flow ends
\* in that step with the connectivity message stored, loading reset, no
\* User, no fetchMeetings call, the login screen and an unchanged meeting
\* collection.
C7_LoginFailure ==
    [][\A i \in 1..MaxFlows :
         (LoginAnswered(i) /\ NoUserNoRedirect(flows'[i].resp)) =>
             /\ flows'[i].pc = "done"
             /\ error' = ConnectionFailed
             /\ ~loading'
             /\ user' = Null
             /\ flows'[i].fetchCalls = 0
             /\ data' = data
             /\ href' = href]_vars

\* C7 witness: a real-mode flow has ended on a failed login and the
\* connectivity message is set
C7_Witness ==
    /\ error = ConnectionFailed
    /\ user = Null
    /\ \E i \in DOMAIN flows :
         /\ flows[i].pc = "done"
         /\ flows[i].useReal
         /\ NoUserNoRedirect(flows[i].resp)

\* C8: whenever a flow ends with a failure of its login or of its
\* fetchMeetings request, the view then shown is the login screen and the
\* error message is set.
C8_FailureShowsLoginScreen ==
    [][\A i \in 1..MaxFlows :
         (\/ (LoginAnswered(i) /\ NoUserNoRedirect(flows'[i].resp))
          \/ FetchFailed(i)) =>
             /\ view' = "login"
             /\ error' = ConnectionFailed]_vars

\* C9: in every state the dashboard is shown if and only if a User is
\* present, and the login screen if and only if no User is present.
C9_ViewMatchesUser ==
    /\ (view = "dashboard") <=> (user # Null)
    /\ (view = "login") <=> (user = Null)

\* C9 witness: a User is present and the dashboard is shown
C9_Witness ==
    /\ user \in Users
    /\ view = "dashboard"

\* C10: a stub-mode login never rejects and yields the User with email
\* demo@example.com: a stub-mode flow is either waiting for its timer or
\* has that User as its login result, and a stub-mode flow waiting for its
\* timer eventually has that User as its result unless the page is loaded
\* anew first.
C10_StubLoginResolves ==
    /\ [](\A i \in DOMAIN flows :
            ~flows[i].useReal =>
                \/ (flows[i].pc = "login" /\ flows[i].outcome = "pending")
                \/ (/\ flows[i].outcome = "user"
                    /\ flows[i].userData \in Users
                    /\ flows[i].userData.email = "demo@example.com"))
    /\ \A i \in 1..MaxFlows, n \in 1..MaxLoads :
         (/\ loads = n
          /\ i \in DOMAIN flows
          /\ ~flows[i].useReal
          /\ flows[i].pc = "login")
         ~> (\/ loads > n
             \/ (/\ i \in DOMAIN flows
                 /\ flows[i].outcome = "user"
                 /\ flows[i].userData \in Users
                 /\ flows[i].userData.email = "demo@example.com"))

\* C10 witness: a stub-mode flow has ended and the demo User is logged in
C10_Witness ==
    /\ user = DemoUser
    /\ error = NoError
    /\ \E i \in DOMAIN flows :
         ~flows[i].useReal /\ flows[i].pc = "done" /\ flows[i].userData = DemoUser

\* the stub-mode flow i of the current page runs to its end in this step
StubFlowEnds(i) ==
    /\ i \in DOMAIN flows
    /\ i \in DOMAIN flows'
    /\ loads' = loads
    /\ ~flows[i].useReal
    /\ flows[i].pc = "login"
    /\ flows'[i].pc = "done"

\* C11: the fetchMeetings call of a stub-mode flow succeeds with the empty
\* collection: in the step that completes a stub-mode flow the call's result
\* has empty upcoming and past, no error is set, and the collection in state
\* is empty whatever it held before.
C11_StubFetchEmpty ==
    [][\A i \in 1..MaxFlows :
         StubFlowEnds(i) =>
             /\ flows'[i].fetchCalls = 1
             /\ flows'[i].fetchOutcome = "ok"
             /\ flows'[i].meetings = [upcoming |-> <<>>, past |-> <<>>]
             /\ data' = [upcoming |-> <<>>, past |-> <<>>]
             /\ error' = NoError]_vars

\* C11 witness: a stub-mode flow has completed on a page whose earlier
\* real-mode flow had fetched a non-empty collection
C11_Witness ==
    /\ Len(flows) = 2
    /\ flows[1].useReal
    /\ flows[1].fetchOutcome = "ok"
    /\ flows[1].meetings # EmptyData
    /\ ~flows[2].useReal
    /\ flows[2].pc = "done"
    /\ data = EmptyData

\* C12: in every state in which a flow has ended with the error message
\* set, the login action is enabled, and a login started from such a state
\* sets loading and clears the message.
C12_ErrorNotTerminal ==
    /\ [](error = ConnectionFailed => LoginEnabled)
    /\ [][(error = ConnectionFailed /\ loads' = loads /\ Len(flows') > Len(flows)) =>
             (loading' /\ error' = NoError)]_vars

\* C13: once a login of the current page has yielded a redirect signal,
\* loading stays true and the login action stays disabled.
C13_RedirectStaysAuthenticating ==
    (\E i \in DOMAIN flows : flows[i].outcome = "redirect") =>
        (loading /\ ~LoginEnabled)

\* number of fetchMeetings calls made by the first n flows of the page
RECURSIVE FetchCallsUpTo(_)
FetchCallsUpTo(n) ==
    IF n = 0 THEN 0 ELSE flows[n].fetchCalls + FetchCallsUpTo(n - 1)

\* number of requests the current page has issued: one login call per
\* handleLogin invocation plus its fetchMeetings calls
RequestsIssued == Len(flows) + FetchCallsUpTo(Len(flows))

\* C14: on a page a request is issued only by the user's login action, or
\* as the fetchMeetings call that follows a login resolving to a User; a step
\* in which a login or fetchMeetings request fails issues none, and a flow
\* that has ended is never resumed.
C14_NoAutomaticRetry ==
    /\ [][(loads' = loads /\ RequestsIssued' > RequestsIssued) =>
            \/ ClickLogin
            \/ \E i \in DOMAIN flows :
                 /\ flows[i].pc = "login"
                 /\ FetchInvoked(i)
                 /\ flows'[i].outcome = "user"
                 /\ RequestsIssued' = RequestsIssued + 1]_vars
    /\ [][\A i \in 1..MaxFlows :
            (i \in DOMAIN flows /\ loads' = loads /\ flows[i].pc = "done") =>
                flows'[i] = flows[i]]_vars

\* C14 witness: after a flow that ended in a failure the user has triggered
\* login again
C14_Witness ==
    /\ Len(flows) = 2
    /\ flows[1].pc = "done"
    /\ (flows[1].outcome = "error" \/ flows[1].fetchOutcome = "failed")
    /\ flows[2].pc = "login"

\* the fetchMeetings call of flow i of the current page succeeds in this step
FetchSucceeded(i) ==
    /\ i \in DOMAIN flows
    /\ i \in DOMAIN flows'
    /\ loads' = loads
    /\ flows[i].fetchOutcome # "ok"
    /\ flows'[i].fetchOutcome = "ok"

\* C15: on a page the collection changes only in a step in which a
\* fetchMeetings call succeeds, and such a step makes it equal to that
\* call's result; every other step (login, login or fetch failure, redirect,
\* logout, mode toggle) leaves it unchanged.
C15_DataOnlyFromFetch ==
    /\ [][(loads' = loads /\ data' # data) =>
            \E i \in DOMAIN flows : FetchSucceeded(i)]_vars
    /\ [][\A i \in 1..MaxFlows :
            FetchSucceeded(i) => data' = flows'[i].meetings]_vars
    /\ [][\A i \in 1..MaxFlows :
            (FetchFailed(i) \/ (LoginAnswered(i) /\ flows'[i].outcome # "user")) =>
                data' = data]_vars

\* C15 witness: a fetch has replaced a non-empty collection by another one
C15_Witness ==
    /\ Len(flows) = 2
    /\ flows[1].fetchOutcome = "ok"
    /\ flows[1].meetings # EmptyData
    /\ flows[2].fetchOutcome = "ok"
    /\ flows[2].meetings # flows[1].meetings
    /\ data = flows[2].meetings

\* C16: no reachable state has loading true while a User is set, and none
\* has an error message set while a User is set.
C16_FlagsEncodeOneState ==
    /\ ~(loading /\ user # Null)
    /\ ~(error # NoError /\ user # Null)

\* the mode flag is flipped on the current page in this step
ModeFlipped == loads' = loads /\ useReal' # useReal

\* C17 as stated: the mode flag is flipped only in a state with no User and
\* no login flow in flight, and the flip leaves user, collection, loading
\* and error unchanged.
C17_Original ==
    [][ModeFlipped =>
          /\ user = Null
          /\ ~loading
          /\ \A i \in DOMAIN flows : flows[i].pc = "done"
          /\ UNCHANGED <<user, data, loading, error>>]_vars

\* C17 amended: the toggle action is available exactly when no User is
\* present, also while a login flow is in flight, and a flip of the mode
\* flag leaves user, collection, loading, error, the flows in flight and the
\* browsing context unchanged.
C17_ToggleOnlyWithoutUser ==
    /\ []((ENABLED ToggleMode) <=> (user = Null))
    /\ [][ModeFlipped =>
            /\ user = Null
            /\ UNCHANGED <<user, data, loading, error, flows, search, href>>]_vars

\* C17 witness: the mode flag was flipped while a login request was in
\* flight
C17_Witness ==
    /\ loading
    /\ user = Null
    /\ \E i \in DOMAIN flows : flows[i].pc = "login" /\ flows[i].useReal # useReal

\* the handleLogin invocations of the page that have not run to their end
InFlight == {i \in DOMAIN flows : flows[i].pc # "done"}

\* C18: at most one handleLogin invocation is in flight at any time, and
\* loading is true exactly while one is.
C18_OneFlowInFlight ==
    /\ Cardinality(InFlight) <= 1
    /\ loading <=> (InFlight # {})

\* C18 witness: a second flow is in flight on a page whose first flow has
\* ended and whose mode flag was flipped in between
C18_Witness ==
    /\ Len(flows) = 2
    /\ flows[1].pc = "done"
    /\ flows[2].pc # "done"
    /\ flows[2].useReal # flows[1].useReal
    /\ loading

\* C19: on a page the collection is written only in a step that leaves a
\* User present.
C19_DataWrittenOnlyWithUser ==
    [][(loads' = loads /\ data' # data) => user' # Null]_vars

\* C20: every fetchMeetings call of a flow is made with the mode value its
\* login was called with, which is the mode flag as it was when the flow
\* started and does not change while the flow exists, whatever the mode flag
\* becomes meanwhile.
C20_SameModeInFlow ==
    /\ [](\A i \in DOMAIN flows :
            \A k \in DOMAIN flows[i].fetchArgs :
                flows[i].fetchArgs[k] = flows[i].useReal)
    /\ [][\A i \in 1..MaxFlows :
            (i \in DOMAIN flows /\ i \in DOMAIN flows' /\ loads' = loads) =>
                flows'[i].useReal = flows[i].useReal]_vars
    /\ [][(loads' = loads /\ Len(flows') > Len(flows)) =>
            flows'[Len(flows')].useReal = useReal]_vars

\* C20 witness: a flow has called fetchMeetings after the mode flag was
\* flipped during its login
C20_Witness ==
    \E i \in DOMAIN flows :
        /\ flows[i].fetchArgs = <<flows[i].useReal>>
        /\ flows[i].pc = "fetch"
        /\ flows[i].useReal # useReal
====
